---- MODULE Spec2Model ----
(***************************************************************************)
(* The notification feed of VideoAnalysisApp/App.tsx: the three polled     *)
(* GET fetches, the acknowledge POST, addNotification with its dedup and   *)
(* its cap, the 5 s poller and the screen's mount / unmount.               *)
(*                                                                         *)
(* Strings are sequences of one-character strings, so that substring,      *)
(* length and concatenation are computed as String.prototype computes      *)
(* them.  A fetch is a pair of steps: the call (the request goes out) and  *)
(* the resumption after `await fetch(...)`, where the transport's answer   *)
(* is chosen.  JavaScript runs each resumption to completion, so one       *)
(* resumption is one action.                                               *)
(***************************************************************************)
EXTENDS Integers, Sequences, FiniteSets, Bags

VARIABLES
    systemStatus,   \* useState<SystemStatus | null>            (line 40)
    anomalyData,    \* useState<AnomalyData | null>             (line 41)
    notifications,  \* useState<Notification[]>                 (line 42)
    refreshing,     \* useState(false)                          (line 43)
    lifecycle,      \* "rendered" | "mounted" | "unmounted"; the interval
                    \* of line 142 exists exactly while "mounted"
    inflight,       \* requests started by the effect, the interval or the
                    \* Acknowledge button and not yet settled, per endpoint
    refreshWait,    \* the fetches the pending onRefresh still awaits
    now,            \* Date.now(), in milliseconds since the first render
    alerts          \* bag of the Alert.alert calls made so far

vars == <<systemStatus, anomalyData, notifications, refreshing, lifecycle,
          inflight, refreshWait, now, alerts>>

data == <<systemStatus, anomalyData, notifications, alerts>>

----------------------------------------------------------------------------
(* Program constants *)

TruncLen == 100      \* message.substring(0, 100), message.length > 100
SliceEnd == 9        \* prev.slice(0, 9)

(* Bounds of the model *)

MaxClock == 1        \* Date.now() takes the values 0 .. MaxClock
MaxInflight == 1     \* unsettled background requests per endpoint
MaxAlerts == 1       \* Alert.alert calls in one run of Spec
MaxIngestAlerts == 2 \* Alert.alert calls in one run of SpecIngest, SpecClock
MaxTruncAlerts == 1  \* Alert.alert calls in one run of SpecTrunc
FeedLen == 12        \* reports the server of SpecFeed produces, and
                     \* Alert.alert calls in one run of SpecFeed
MaxItems == 2        \* entries in one /api/get-custom-anomalies response

----------------------------------------------------------------------------
(* Values *)

Null == [isNull |-> TRUE]          \* JavaScript null
NoTimestamp == -1                  \* timestamp null, undefined or ""

Min(a, b) == IF a < b THEN a ELSE b

Ellipsis == <<".", ".", ".">>

Digit(d) == CASE d = 0 -> "0" [] d = 1 -> "1" [] d = 2 -> "2" [] d = 3 -> "3"
              [] d = 4 -> "4" [] d = 5 -> "5" [] d = 6 -> "6" [] d = 7 -> "7"
              [] d = 8 -> "8" [] d = 9 -> "9"

RECURSIVE toString(_)
(* Number.prototype.toString of a non-negative integer *)
toString(n) == IF n < 10 THEN <<Digit(n)>>
               ELSE Append(toString(n \div 10), Digit(n % 10))

(* toLocaleTimeString([], {hour: '2-digit', minute: '2-digit'}) of an       *)
(* instant: its hour and minute of the day (the zone offset is taken as 0). *)
ToLocaleTime(t) == <<(t \div 3600000) % 24, (t \div 60000) % 60>>

Endpoints == {"status", "latest", "custom", "clear"}
GetEndpoints == {"status", "latest", "custom"}
Origins == {"background", "refresh"}
Outcomes == {"ok", "non2xx", "error"}   \* 2xx with a JSON body; response.ok
                                        \* false; fetch or json() rejects

----------------------------------------------------------------------------
(* addNotification, lines 98-117 *)

(* Truncate with the marker appended from 100 characters on (>= for >) *)
TruncateFrom100(message) ==
    SubSeq(message, 1, Min(TruncLen, Len(message)))
        \o (IF Len(message) >= TruncLen THEN Ellipsis ELSE <<>>)

Truncate(message) ==
    SubSeq(message, 1, Min(TruncLen, Len(message)))
        \o (IF Len(message) > TruncLen THEN Ellipsis ELSE <<>>)

NewNotification(message, timestamp, isCustom, clock) ==
    [id      |-> toString(clock),
     time    |-> IF timestamp # NoTimestamp THEN ToLocaleTime(timestamp)
                                            ELSE ToLocaleTime(clock),
     message |-> Truncate(message),
     type    |-> IF isCustom THEN "info" ELSE "anomaly"]

(* IsDuplicate comparing the kind as well as the message *)
IsDuplicateSameKind(prev, n) ==
    \E i \in 1..Len(prev) : /\ prev[i].message = n.message
                            /\ prev[i].type = n.type

IsDuplicate(prev, n) == \E i \in 1..Len(prev) : prev[i].message = n.message

(* Prepend with prev.slice(0, 10) *)
PrependSlice10(prev, n) == <<n>> \o SubSeq(prev, 1, Min(SliceEnd + 1, Len(prev)))

(* Prepend with prev.slice(1, 10): a full list loses its newest entry *)
PrependDropNewest(prev, n) ==
    <<n>> \o (IF Len(prev) > SliceEnd THEN SubSeq(prev, 2, Len(prev))
                                      ELSE prev)

Prepend(prev, n) == <<n>> \o SubSeq(prev, 1, Min(SliceEnd, Len(prev)))

(* the updater handed to setNotifications, lines 108-111 *)
UpdateNotifications(prev, n) ==
    IF IsDuplicate(prev, n) THEN prev ELSE Prepend(prev, n)

AlertOf(message, isCustom) ==
    [title   |-> IF isCustom THEN "Custom Anomaly Detected!"
                             ELSE "Anomaly Detected!",
     message |-> message]

(* A state setter of an unmounted component is dropped by React. *)
SetState(old, new) == IF lifecycle = "mounted" THEN new ELSE old

(* st = [notifications, alerts]; the result is st after one call *)
addNotification(st, message, timestamp, isCustom, clock) ==
    [notifications |->
        SetState(st.notifications,
                 UpdateNotifications(st.notifications,
                     NewNotification(message, timestamp, isCustom, clock))),
     alerts |-> st.alerts (+) SetToBag({AlertOf(message, isCustom)})]

----------------------------------------------------------------------------
(* Requests *)

Pending(origin, endpoint) ==
    IF origin = "refresh" THEN endpoint \in refreshWait
                          ELSE inflight[endpoint] > 0

Settle(origin, endpoint) ==
    IF origin = "refresh"
    THEN /\ refreshWait' = refreshWait \ {endpoint}
         /\ UNCHANGED inflight
    ELSE /\ inflight' = [inflight EXCEPT ![endpoint] = @ - 1]
         /\ UNCHANGED refreshWait

Start(endpoints) ==
    inflight' = [e \in Endpoints |->
                    IF e \in endpoints THEN inflight[e] + 1 ELSE inflight[e]]

Room(endpoints) == \A e \in endpoints : inflight[e] < MaxInflight

----------------------------------------------------------------------------
(* fetchSystemStatus, lines 50-60: the resumption after the await *)
fetchSystemStatus(origin, outcome, body) ==
    /\ Pending(origin, "status")
    /\ Settle(origin, "status")
    /\ systemStatus' = IF outcome = "ok" THEN SetState(systemStatus, body)
                                         ELSE systemStatus
    /\ UNCHANGED <<anomalyData, notifications, refreshing, lifecycle, now,
                   alerts>>

(* fetchAnomalyData without the test of response.ok *)
fetchAnomalyDataNoOkCheck(origin, outcome, body) ==
    /\ Pending(origin, "latest")
    /\ Settle(origin, "latest")
    /\ IF outcome # "error"
       THEN /\ anomalyData' = SetState(anomalyData, body)
            /\ IF body.success /\ body.has_anomaly /\ body.report # <<>>
               THEN LET st == addNotification(
                                  [notifications |-> notifications,
                                   alerts |-> alerts],
                                  body.report, body.timestamp, FALSE, now)
                    IN  /\ notifications' = st.notifications
                        /\ alerts' = st.alerts
               ELSE UNCHANGED <<notifications, alerts>>
       ELSE UNCHANGED <<anomalyData, notifications, alerts>>
    /\ UNCHANGED <<systemStatus, refreshing, lifecycle, now>>

(* fetchAnomalyData without the test of data.success *)
fetchAnomalyDataNoSuccessCheck(origin, outcome, body) ==
    /\ Pending(origin, "latest")
    /\ Settle(origin, "latest")
    /\ IF outcome = "ok"
       THEN /\ anomalyData' = SetState(anomalyData, body)
            /\ IF body.has_anomaly /\ body.report # <<>>
               THEN LET st == addNotification(
                                  [notifications |-> notifications,
                                   alerts |-> alerts],
                                  body.report, body.timestamp, FALSE, now)
                    IN  /\ notifications' = st.notifications
                        /\ alerts' = st.alerts
               ELSE UNCHANGED <<notifications, alerts>>
       ELSE UNCHANGED <<anomalyData, notifications, alerts>>
    /\ UNCHANGED <<systemStatus, refreshing, lifecycle, now>>

(* fetchAnomalyData, lines 63-77 *)
fetchAnomalyData(origin, outcome, body) ==
    /\ Pending(origin, "latest")
    /\ Settle(origin, "latest")
    /\ IF outcome = "ok"
       THEN /\ anomalyData' = SetState(anomalyData, body)
            /\ IF body.success /\ body.has_anomaly /\ body.report # <<>>
               THEN LET st == addNotification(
                                  [notifications |-> notifications,
                                   alerts |-> alerts],
                                  body.report, body.timestamp, FALSE, now)
                    IN  /\ notifications' = st.notifications
                        /\ alerts' = st.alerts
               ELSE UNCHANGED <<notifications, alerts>>
       ELSE UNCHANGED <<anomalyData, notifications, alerts>>
    /\ UNCHANGED <<systemStatus, refreshing, lifecycle, now>>

RECURSIVE ForEachCustom(_, _, _, _)
(* data.forEach(...) of lines 87-89 from entry i on.  Date.now() may pass   *)
(* to the next millisecond during the loop: the entries after `boundary`   *)
(* read now + 1.                                                           *)
ForEachCustom(st, body, i, boundary) ==
    IF i > Len(body) THEN st
    ELSE ForEachCustom(
             addNotification(st, body[i].anomaly, body[i].timestamp, TRUE,
                             IF i > boundary THEN now + 1 ELSE now),
             body, i + 1, boundary)

(* fetchCustomAnomalies, lines 80-95; body is the array of the response *)
fetchCustomAnomalies(origin, outcome, body, boundary) ==
    /\ Pending(origin, "custom")
    /\ Settle(origin, "custom")
    /\ IF outcome = "ok" /\ Len(body) > 0
       THEN LET st == ForEachCustom([notifications |-> notifications,
                                     alerts |-> alerts], body, 1, boundary)
            IN  /\ notifications' = st.notifications
                /\ alerts' = st.alerts
                /\ now' = IF boundary < Len(body) THEN now + 1 ELSE now
       ELSE UNCHANGED <<notifications, alerts, now>>
    /\ UNCHANGED <<systemStatus, anomalyData, refreshing, lifecycle>>

(* clearAnomalyFlag, lines 120-127: the press of Acknowledge sends the POST *)
clearAnomalyFlag ==
    /\ lifecycle = "mounted"
    /\ anomalyData # Null
    /\ anomalyData.has_anomaly          \* the button is rendered (line 217)
    /\ Room({"clear"})
    /\ Start({"clear"})
    /\ UNCHANGED <<systemStatus, anomalyData, notifications, refreshing,
                   lifecycle, refreshWait, now, alerts>>

(* clearAnomalyFlagResume with the setter outside the try: the flag is    *)
(* cleared whatever became of the POST                                   *)
clearAnomalyFlagResumeAlways(outcome) ==
    /\ inflight["clear"] > 0
    /\ Settle("background", "clear")
    /\ anomalyData' =
          SetState(anomalyData,
                   IF anomalyData # Null
                   THEN [anomalyData EXCEPT !.has_anomaly = FALSE]
                   ELSE Null)
    /\ UNCHANGED <<systemStatus, notifications, refreshing, lifecycle, now,
                   alerts>>

(* clearAnomalyFlag, lines 122-126: the resumption after the await.  fetch *)
(* resolves for every HTTP status and rejects on a transport error.        *)
clearAnomalyFlagResume(outcome) ==
    /\ inflight["clear"] > 0
    /\ Settle("background", "clear")
    /\ anomalyData' =
          IF outcome # "error"
          THEN SetState(anomalyData,
                        IF anomalyData # Null
                        THEN [anomalyData EXCEPT !.has_anomaly = FALSE]
                        ELSE Null)
          ELSE anomalyData
    /\ UNCHANGED <<systemStatus, notifications, refreshing, lifecycle, now,
                   alerts>>

(* onRefresh, lines 130-132: up to the await of Promise.all.  RefreshControl *)
(* does not fire onRefresh again while its refreshing prop is true.          *)
onRefresh ==
    /\ lifecycle = "mounted"
    /\ ~refreshing
    /\ refreshing' = TRUE
    /\ refreshWait' = GetEndpoints
    /\ UNCHANGED <<systemStatus, anomalyData, notifications, lifecycle,
                   inflight, now, alerts>>

(* onRefresh, line 133: the three fetches have settled *)
onRefreshResume ==
    /\ refreshing
    /\ refreshWait = {}
    /\ refreshing' = SetState(refreshing, FALSE)
    /\ UNCHANGED <<systemStatus, anomalyData, notifications, lifecycle,
                   inflight, refreshWait, now, alerts>>

(* useEffect, lines 137-145: the effect of the first render *)
MountEffect ==
    /\ lifecycle = "rendered"
    /\ lifecycle' = "mounted"
    /\ Start(GetEndpoints)
    /\ UNCHANGED <<systemStatus, anomalyData, notifications, refreshing,
                   refreshWait, now, alerts>>

(* the setInterval callback, lines 142-145 *)
IntervalTick ==
    /\ lifecycle = "mounted"
    /\ Room({"latest", "custom"})
    /\ Start({"latest", "custom"})
    /\ UNCHANGED <<systemStatus, anomalyData, notifications, refreshing,
                   lifecycle, refreshWait, now, alerts>>

(* the effect's cleanup, line 147: clearInterval, the screen is torn down *)
Unmount ==
    /\ lifecycle = "mounted"
    /\ lifecycle' = "unmounted"
    /\ UNCHANGED <<systemStatus, anomalyData, notifications, refreshing,
                   inflight, refreshWait, now, alerts>>

(* a millisecond passes *)
Tick ==
    /\ now < MaxClock
    /\ now' = now + 1
    /\ UNCHANGED <<systemStatus, anomalyData, notifications, refreshing,
                   lifecycle, inflight, refreshWait, alerts>>

----------------------------------------------------------------------------
(* The server: the bodies the three GET endpoints may answer with, over a  *)
(* set R of reports and a set T of timestamps.                             *)

Timestamps == {NoTimestamp, 90000}

StatusBodies ==
    {[live_tracking_active |-> TRUE, last_analysis_time |-> 0,
      frames_captured |-> 1, timestamp |-> 0]}

AnomalyBodies(R, T) ==
    [success : BOOLEAN, has_anomaly : BOOLEAN, report : R \cup {<<>>},
     timestamp : T]

CustomItems(R, T) == [anomaly : R, timestamp : T]

CustomBodies(R, T, maxItems) ==
    UNION {[1..n -> CustomItems(R, T)] : n \in 0..maxItems}

(* the run makes at most maxAlerts calls of Alert.alert *)
AlertRoom(n, maxAlerts) == BagCardinality(alerts) + n <= maxAlerts

StatusSettles ==
    \E origin \in Origins, outcome \in Outcomes, body \in StatusBodies :
        fetchSystemStatus(origin, outcome, body)

AnomalySettles(bodies, maxAlerts) ==
    \E origin \in Origins, outcome \in Outcomes, body \in bodies :
        /\ AlertRoom(1, maxAlerts)
        /\ fetchAnomalyData(origin, outcome, body)

(* clockRuns: whether Date.now() may pass to the next millisecond during *)
(* the forEach                                                           *)
CustomSettles(bodies, maxAlerts, clockRuns) ==
    \E origin \in Origins, outcome \in Outcomes, body \in bodies :
        \E boundary \in (IF clockRuns THEN 0..Len(body) ELSE {Len(body)}) :
            /\ AlertRoom(Len(body), maxAlerts)
            /\ boundary < Len(body) => now < MaxClock
            /\ fetchCustomAnomalies(origin, outcome, body, boundary)

ClearSettles == \E outcome \in Outcomes : clearAnomalyFlagResume(outcome)

Init ==
    /\ systemStatus = Null
    /\ anomalyData = Null
    /\ notifications = <<>>
    /\ refreshing = FALSE
    /\ lifecycle = "rendered"
    /\ inflight = [e \in Endpoints |-> 0]
    /\ refreshWait = {}
    /\ now = 0
    /\ alerts = EmptyBag

----------------------------------------------------------------------------
(* Spec: the whole screen -- mount, poller, pull-to-refresh, Acknowledge,  *)
(* teardown -- against a server that knows the reports of Reports.         *)

Reports == {<<"A">>, <<"B">>}

Next ==
    \/ MountEffect
    \/ IntervalTick
    \/ Unmount
    \/ onRefresh
    \/ onRefreshResume
    \/ clearAnomalyFlag
    \/ StatusSettles
    \/ AnomalySettles(AnomalyBodies(Reports, {NoTimestamp}), MaxAlerts)
    \/ CustomSettles(CustomBodies(Reports, {NoTimestamp}, MaxItems), MaxAlerts,
                     FALSE)
    \/ ClearSettles

Spec == Init /\ [][Next]_vars

----------------------------------------------------------------------------
(* SpecIngest: the mounted screen -- poller and pull-to-refresh -- against *)
(* the server of Spec, for runs of more alerts.                            *)

NextIngest ==
    \/ MountEffect
    \/ IntervalTick
    \/ onRefresh
    \/ onRefreshResume
    \/ StatusSettles
    \/ AnomalySettles(AnomalyBodies(Reports, {NoTimestamp}), MaxIngestAlerts)
    \/ CustomSettles(CustomBodies(Reports, {NoTimestamp}, MaxItems),
                     MaxIngestAlerts, FALSE)

SpecIngest == Init /\ [][NextIngest]_vars

----------------------------------------------------------------------------
(* SpecClock: the poller alone while the clock runs, against a server that *)
(* sends its reports with and without timestamps.                          *)

NextClock ==
    \/ MountEffect
    \/ IntervalTick
    \/ AnomalySettles(AnomalyBodies(Reports, Timestamps), MaxIngestAlerts)
    \/ CustomSettles(CustomBodies(Reports, Timestamps, MaxItems),
                     MaxIngestAlerts, TRUE)
    \/ Tick

SpecClock == Init /\ [][NextClock]_vars

----------------------------------------------------------------------------
(* SpecTrunc: the poller alone, against a server whose reports lie on both *)
(* sides of the truncation length.                                         *)

(* n characters, the character at TruncLen and those after it marked *)
LongReport(n) ==
    [i \in 1..n |-> IF i < TruncLen THEN "x"
                    ELSE IF i = TruncLen THEN "y" ELSE "z"]

TruncReports ==
    {LongReport(n) : n \in (TruncLen - 1)..(TruncLen + 2)} \cup {<<"A">>}

NextTrunc ==
    \/ MountEffect
    \/ IntervalTick
    \/ AnomalySettles(AnomalyBodies(TruncReports, Timestamps), MaxTruncAlerts)
    \/ CustomSettles(CustomBodies(TruncReports, Timestamps, MaxItems),
                     MaxTruncAlerts, FALSE)

SpecTrunc == Init /\ [][NextTrunc]_vars

----------------------------------------------------------------------------
(* SpecFeed: the poller alone, against a server that produces the reports  *)
(* "1", "2", ... in this order.  /api/anomalies/latest answers with the    *)
(* newest report produced so far or with the next one;                     *)
(* /api/get-custom-anomalies answers with the next two, or with none.      *)

Seen == Cardinality({a.message : a \in BagToSet(alerts)})

FeedAnomalyBodies ==
    {[success |-> TRUE, has_anomaly |-> TRUE, report |-> toString(k),
      timestamp |-> NoTimestamp] :
        k \in {Seen, Seen + 1} \cap 1..FeedLen}

FeedItem(k) == [anomaly |-> toString(k), timestamp |-> NoTimestamp]

FeedCustomBodies ==
    {<<>>} \cup (IF Seen + 2 <= FeedLen
                 THEN {<<FeedItem(Seen + 1), FeedItem(Seen + 2)>>}
                 ELSE {})

NextFeed ==
    \/ MountEffect
    \/ IntervalTick
    \/ AnomalySettles(FeedAnomalyBodies, FeedLen)
    \/ CustomSettles(FeedCustomBodies, FeedLen, FALSE)

SpecFeed == Init /\ [][NextFeed]_vars

----------------------------------------------------------------------------
(* Properties *)

Retained(message) ==
    \E i \in 1..Len(notifications) : notifications[i].message = message

Ingestible(body) == body.has_anomaly /\ body.report # <<>>

AlertsFor(message, isCustom) == CopiesIn(AlertOf(message, isCustom), alerts)

SpecBodies == AnomalyBodies(Reports, {NoTimestamp})

(* a step in which a request to the endpoint settles *)
Settles(endpoint) ==
    \/ inflight'[endpoint] = inflight[endpoint] - 1
    \/ endpoint \in refreshWait /\ endpoint \notin refreshWait'

(* C1: ingesting a report whose message is still retained is a no-op: the  *)
(* list is not mutated and no alert is raised, so that a report ingested   *)
(* twice leaves one notification and one alert.                            *)
C1_DuplicateIngestionIsSilent ==
    [][Settles("latest") => \A origin \in Origins, body \in SpecBodies :
          ( /\ fetchAnomalyData(origin, "ok", body)
            /\ body.success /\ Ingestible(body)
            /\ Retained(Truncate(body.report)) )
          => /\ notifications' = notifications
             /\ alerts' = alerts]_vars

(* C2, as claimed: the resumption of clearAnomalyFlag leaves hasAnomaly    *)
(* false whenever a snapshot exists, whatever became of the POST.          *)
C2_ClearedWhateverThePost ==
    [][Settles("clear") => \A outcome \in Outcomes :
          (clearAnomalyFlagResume(outcome) /\ anomalyData # Null)
          => anomalyData'.has_anomaly = FALSE]_vars

(* C2, amended: hasAnomaly is set to false, and nothing else of the        *)
(* snapshot changes, when the POST resolves (with any HTTP status) while   *)
(* the screen is mounted; when the POST fails with a transport error the   *)
(* snapshot is left as it was.                                             *)
C2_ClearedOnceThePostResolves ==
    [][Settles("clear") => \A outcome \in Outcomes :
          clearAnomalyFlagResume(outcome)
          => IF outcome # "error" /\ lifecycle = "mounted"
                /\ anomalyData # Null
             THEN anomalyData' = [anomalyData EXCEPT !.has_anomaly = FALSE]
             ELSE anomalyData' = anomalyData]_vars

(* C2 witness: on the mounted screen the POST of an Acknowledge press has  *)
(* settled and the snapshot of an ingested anomaly now has the flag down.  *)
C2_Witness ==
    /\ lifecycle = "mounted"
    /\ inflight["clear"] = 0
    /\ anomalyData # Null
    /\ anomalyData.success /\ anomalyData.report # <<>>
    /\ ~anomalyData.has_anomaly
    /\ AlertsFor(anomalyData.report, FALSE) = 1
    /\ BagCardinality(alerts) = 1

(* C3: no two retained notifications have the same message, whatever       *)
(* their kinds and whatever the order in which the fetches settle.         *)
C3_NoDuplicateMessages ==
    \A i, j \in 1..Len(notifications) :
        i # j => notifications[i].message # notifications[j].message

(* C3 witness: on the mounted screen a live notification is retained and a *)
(* custom anomaly with the same message has been ingested and suppressed,  *)
(* while a poll's fetches and a pull-to-refresh's are in flight together.  *)
C3_Witness ==
    /\ lifecycle = "mounted"
    /\ Len(notifications) = 1
    /\ notifications[1].type = "anomaly"
    /\ \E r \in Reports : /\ Truncate(r) = notifications[1].message
                          /\ AlertsFor(r, TRUE) = 1
                          /\ AlertsFor(r, FALSE) = 1
    /\ inflight["latest"] = 1 /\ inflight["custom"] = 1
    /\ refreshWait = {"latest", "custom"}

(* C4: the retained list never holds more than 10 notifications. *)
C4_AtMostTen == Len(notifications) <= 10

(* C4 witness: the list is full and an eleventh report has been ingested. *)
C4_Witness == Len(notifications) = 10 /\ Seen > 10

FeedMessages == [i \in 1..Len(notifications) |-> notifications[i].message]

Front(s) == SubSeq(s, 1, Len(s) - 1)

(* C5: the list is most-recent-first and evicts the oldest.  A live report *)
(* whose message is not retained goes to the head; the rest of the list is *)
(* the old list without its last entry when that held 10, and the old list *)
(* otherwise.  After the reports "1" .. "n" the list holds "n" down to     *)
(* "n-9" (down to "1" when n < 10): "12", "11", ..., "3" for n = 12.       *)
C5_NewestFirstOldestEvicted ==
    [][ /\ Settles("latest") =>
             \A origin \in Origins, body \in FeedAnomalyBodies :
                ( /\ fetchAnomalyData(origin, "ok", body)
                  /\ ~Retained(Truncate(body.report)) )
                => /\ Head(notifications').message = body.report
                   /\ Tail(notifications') =
                         IF Len(notifications) = 10 THEN Front(notifications)
                                                    ELSE notifications
        /\ alerts' # alerts =>
             FeedMessages' =
                [i \in 1..Min(Seen', 10) |-> toString(Seen' + 1 - i)] ]_vars

(* C5 witness: "1" .. "12" have been ingested, and "1" and "2" evicted. *)
C5_Witness ==
    /\ Seen = 12
    /\ Len(notifications) = 10
    /\ notifications[1].message = <<"1", "2">>
    /\ notifications[10].message = <<"3">>

(* C6: a GET that fails, by a transport error or a non-2xx status, leaves  *)
(* both snapshots, the list and the alerts as they were: no step that      *)
(* changes one of them is the resumption of a failed GET.                  *)
C6_FailedGetChangesNothing ==
    [][ \/ UNCHANGED data
        \/ \A origin \in Origins, outcome \in {"non2xx", "error"} :
              /\ \A body \in StatusBodies :
                    ~fetchSystemStatus(origin, outcome, body)
              /\ \A body \in SpecBodies :
                    ~fetchAnomalyData(origin, outcome, body)
              /\ \A body \in CustomBodies(Reports, {NoTimestamp}, MaxItems) :
                    ~fetchCustomAnomalies(origin, outcome, body, Len(body))
      ]_vars

(* C6 witness: on the mounted screen every fetch of the mount has settled  *)
(* and failed: there is still no snapshot, no notification and no alert.   *)
C6_Witness ==
    /\ lifecycle = "mounted"
    /\ \A e \in GetEndpoints : inflight[e] = 0
    /\ systemStatus = Null /\ anomalyData = Null
    /\ notifications = <<>> /\ alerts = EmptyBag

(* C7: no two retained notifications have the same id. *)
C7_UniqueIds ==
    \A i, j \in 1..Len(notifications) :
        i # j => notifications[i].id # notifications[j].id

(* the stored message m is the report r cut at 100 characters *)
CutAt100(m, r) ==
    IF Len(r) > 100
    THEN /\ Len(m) = 103
         /\ \A i \in 1..100 : m[i] = r[i]
         /\ \A i \in 101..103 : m[i] = "."
    ELSE m = r

(* C8: every stored message is a report that was ingested, cut at 100      *)
(* characters: its first 100 characters and the marker when it is longer,  *)
(* the report itself when it is not.                                       *)
C8_StoredMessageIsCutAt100 ==
    \A i \in 1..Len(notifications) :
        \E a \in BagToSet(alerts) :
            /\ CutAt100(notifications[i].message, a.message)
            /\ a.title = AlertOf(a.message, notifications[i].type = "info").title

(* C8 witness: a report of 102 characters has been ingested and its      *)
(* notification is retained.                                             *)
C8_Witness ==
    /\ Len(notifications) = 1
    /\ Len(notifications[1].message) = 103
    /\ \E a \in BagToSet(alerts) : Len(a.message) = 102

RaisesAlert(message, isCustom) ==
    /\ CopiesIn(AlertOf(message, isCustom), alerts')
           = CopiesIn(AlertOf(message, isCustom), alerts) + 1
    /\ BagCardinality(alerts') = BagCardinality(alerts) + 1

(* C9, as claimed: a successful fetch of the latest anomaly replaces the   *)
(* snapshot and ingests the report whenever hasAnomaly is true and the     *)
(* report is not empty, no other field being looked at.                    *)
C9_IngestsOnAnomalyAndReport ==
    [][Settles("latest") => \A origin \in Origins, body \in SpecBodies :
          fetchAnomalyData(origin, "ok", body)
          => /\ anomalyData' = body
             /\ Ingestible(body) => RaisesAlert(body.report, FALSE)]_vars

(* C9, amended: a successful fetch of the latest anomaly that settles      *)
(* while the screen is mounted replaces the snapshot wholesale; the call   *)
(* ingests the report exactly when the response has success = true,        *)
(* hasAnomaly = true and a non-empty report.                               *)
C9_IngestsOnSuccessAnomalyAndReport ==
    [][Settles("latest") => \A origin \in Origins, body \in SpecBodies :
          fetchAnomalyData(origin, "ok", body)
          => /\ lifecycle = "mounted" => anomalyData' = body
             /\ IF body.success /\ Ingestible(body)
                THEN RaisesAlert(body.report, FALSE)
                ELSE alerts' = alerts /\ notifications' = notifications]_vars

(* C9 witness: the snapshot has been replaced by a response that reports   *)
(* an anomaly without success = true, and nothing has been ingested.       *)
C9_Witness ==
    /\ lifecycle = "mounted"
    /\ anomalyData # Null
    /\ ~anomalyData.success /\ Ingestible(anomalyData)
    /\ notifications = <<>> /\ alerts = EmptyBag

(* C10: once the screen is torn down no poll cycle starts and no fetch     *)
(* replaces a snapshot, inserts a notification or raises an alert.         *)
C10_QuietAfterTeardown ==
    [][lifecycle = "unmounted"
       => /\ \A e \in Endpoints : inflight'[e] <= inflight[e]
          /\ refreshWait' \subseteq refreshWait
          /\ UNCHANGED data]_vars

====
